---------------------------- MODULE Spec2Model ----------------------------
(***************************************************************************)
(* Request-id correlation of mellow-bike-map (app/mbm/request_id.py and    *)
(* app/mbm/logging.py): the per-thread request id written by               *)
(* RequestIDMiddleware.__call__, read by get_request_id, attached to log   *)
(* records by RequestIDFilter.filter and RequestIDServerFormatter.format,  *)
(* and the Sentry hook before_send.                                        *)
(*                                                                         *)
(* Python values: a str is a TLA+ string; None and a missing attribute or  *)
(* dict key are the two reserved strings below, which no str of the        *)
(* program equals (ids are hexadecimal, names and messages are words).     *)
(***************************************************************************)
EXTENDS Naturals, Sequences, FiniteSets, TLC

VARIABLES
    thread_locals,  \* _thread_locals: per thread, the request_id attribute
    frame,          \* per thread: where it is in __call__, whether it ever
                    \* entered it, and the request object it last received
    last            \* the last call application code made into mbm.logging or
                    \* mbm.request_id: the arguments and the outcome; a read of
                    \* the request id is kept until its thread enters __call__

vars == <<thread_locals, frame, last>>

---------------------------------------------------------------------------
\* Bounds of the model.
NumUnits == 2

Units == 1..NumUnits

---------------------------------------------------------------------------
\* Python values.
None == "<None>"
Absent == "<absent>"

\* bool(v) for v a str or None.
Truthy(v) == v # None /\ v # ""

\* getattr(obj_attr, default): the attribute when set, else the default.
GetAttr(attr, default) == IF attr = Absent THEN default ELSE attr

\* hasattr(obj, name).
HasAttr(attr) == attr # Absent

---------------------------------------------------------------------------
\* request_id.py

\* str(uuid.uuid4()): the values the generator may return. The first two
\* differ and share their first eight characters.
Uuid4 == { "abcd1234-0000-4000-8000-000000000001",
           "abcd1234-ffff-4fff-bfff-ffffffffffff",
           "0f0f0f0f-1111-4111-9111-111111111111" }

IdLen == 8

\* str(uuid.uuid4())[:8]
ShortId(uuid) == SubSeq(uuid, 1, IdLen)

RequestIds == { ShortId(x) : x \in Uuid4 }

\* What the downstream handler may return.
Responses == { "200 OK", "404 Not Found" }

\* A namespace shared by all threads, as a plain module-level object is.
LocalOfShared(u) == 1

\* _thread_locals = threading.local(): the namespace thread u reaches is
\* its own.
LocalOf(u) == u

\* Line 25 left out: the id only goes onto the request.
StoreSkipped(tl, u, id) == tl

\* Line 25 as a set-if-missing: the first id of a thread is never replaced.
StoreOnce(tl, u, id) ==
    IF tl[LocalOf(u)] = Absent THEN [tl EXCEPT ![LocalOf(u)] = id] ELSE tl

\* _thread_locals.request_id = request_id, executed on thread u.
Store(tl, u, id) == [tl EXCEPT ![LocalOf(u)] = id]

\* getattr(_thread_locals, 'request_id', None), executed on thread u.
get_request_id(tl, u) == GetAttr(tl[LocalOf(u)], None)

\* The slot cleared once the response is there: del _thread_locals.request_id.
ClearOnReturn(tl, u) == [tl EXCEPT ![LocalOf(u)] = Absent]

\* Lines 36-38: on the way out __call__ leaves the thread's id in place.
AfterResponse(tl, u) == tl

\* __call__ without its return statement.
ReturnNone(response) == None

\* return response
ReturnValue(response) == response

\* A request object as the framework hands it over.
NewRequest == [ request_id |-> Absent,  \* attribute request.request_id
                handled    |-> 0,       \* times get_response received it
                response   |-> Absent,  \* what get_response returned
                returned   |-> Absent ] \* what __call__ returned

\* A thread that has not entered __call__ yet.
IdleFrame == [ pc |-> "idle", entered |-> FALSE, request |-> NewRequest ]

Raised == "<raised>"

Pc(u) == frame[u].pc
Entered(u) == frame[u].entered
Req(u) == frame[u].request

\* A read of the request id stays the thread's latest one until the thread
\* enters __call__ again.
Forget(call, u) ==
    IF call.op = "get_request_id" /\ call.unit = u
    THEN [call EXCEPT !.op = "none", !.during = Absent, !.unit = 0,
                      !.value = Absent]
    ELSE call

\* __call__(request), lines 20-28: a thread that is running no request's
\* code receives a request, draws the id, stores it in the thread's slot
\* and on the request.
Call(u) ==
    /\ Pc(u) = "idle"
    /\ \E uuid \in Uuid4 :
          LET request_id == ShortId(uuid)
          IN  /\ thread_locals' = Store(thread_locals, u, request_id)
              /\ frame' = [frame EXCEPT ![u] =
                              [ pc |-> "invoke", entered |-> TRUE,
                                request |-> [NewRequest EXCEPT
                                                !.request_id = request_id] ]]
    /\ last' = Forget(last, u)

\* Line 34, the call: get_response receives the request.
InvokeHandler(u) ==
    /\ Pc(u) = "invoke"
    /\ frame' = [frame EXCEPT ![u].pc = "handler",
                              ![u].request.handled = @ + 1]
    /\ UNCHANGED <<thread_locals, last>>

\* Lines 34-40: get_response returns, and __call__ returns the response.
HandlerReturns(u) ==
    /\ Pc(u) = "handler"
    /\ thread_locals' = AfterResponse(thread_locals, u)
    /\ \E resp \in Responses :
          frame' = [frame EXCEPT ![u].pc = "idle",
                                 ![u].request.response = resp,
                                 ![u].request.returned = ReturnValue(resp)]
    /\ UNCHANGED last

\* Line 34, get_response raises: __call__ catches nothing, so the exception
\* leaves it and no value is returned.
HandlerRaises(u) ==
    /\ Pc(u) = "handler"
    /\ frame' = [frame EXCEPT ![u].pc = "idle",
                              ![u].request.response = Raised,
                              ![u].request.returned = Raised]
    /\ UNCHANGED <<thread_locals, last>>

\* Code of the application runs on a thread inside the handler, or outside
\* any request (start-up, background work, the server's logging after the
\* middleware has returned).
AppCode(u) == Pc(u) \in {"idle", "handler"}

---------------------------------------------------------------------------
\* logging.py: RequestIDFilter and RequestIDServerFormatter

NoRequest == "no-request"

Levels == { "INFO", "WARNING" }
Messages == { "hello" }

\* The format string the formatter was constructed with: logging's default,
\* and the one Django configures for django.server.
Formats == { "{message}", "[{server_time}] {message}" }

ServerTime == "04/Nov/2026 06:15:00"

\* A LogRecord as the logging module creates it: no request_id attribute.
NewRecord(level, msg) == [ levelname  |-> level,
                           msg        |-> msg,
                           request_id |-> Absent,  \* attribute request_id
                           kept       |-> Absent,  \* what filter() returned
                           line       |-> Absent ] \* what format() returned

\* The sentinel whatever the store returned.
EnrichSentinel(request_id) == NoRequest

\* request_id if request_id else 'no-request'
Enrich(request_id) == IF Truthy(request_id) THEN request_id ELSE NoRequest

\* filter() with the formatter's guard: a request_id already on the record
\* is kept.
filter_keep_existing(record, tl, u) ==
    [record EXCEPT !.request_id = IF HasAttr(@) THEN @
                                  ELSE Enrich(get_request_id(tl, u)),
                   !.kept = "True"]

\* RequestIDFilter.filter(record) on thread u: the record afterwards, with
\* the value returned in kept.
filter(record, tl, u) ==
    [record EXCEPT !.request_id = Enrich(get_request_id(tl, u)),
                   !.kept = "True"]

\* super().format(record): ServerFormatter renders the record with the
\* format string it was constructed with.
BaseFormat(fmt, record) ==
    IF fmt = "{message}" THEN record.msg
    ELSE "[" \o ServerTime \o "] " \o record.msg

\* Lines 41-44: the record's request_id when format() reaches line 53.
Ensured(record, tl, u) ==
    IF ~HasAttr(record.request_id) THEN Enrich(get_request_id(tl, u))
    ELSE record.request_id

\* The prefix without the level name.
RenderNoLevel(levelname, request_id, msg) ==
    "[rid=" \o request_id \o "] " \o msg

\* f"{record.levelname} [rid={record.request_id}] {msg}"
Render(levelname, request_id, msg) ==
    levelname \o " [rid=" \o request_id \o "] " \o msg

\* RequestIDServerFormatter.format(record) on thread u, for a formatter
\* constructed with fmt: the record afterwards, with the value returned in
\* line.
format(record, tl, u, fmt) ==
    LET rid == Ensured(record, tl, u)
    IN  [record EXCEPT !.request_id = rid,
                       !.line = Render(record.levelname, rid,
                                       BaseFormat(fmt, record))]

---------------------------------------------------------------------------
\* logging.py: before_send

DisallowedHost == "django.security.DisallowedHost"

LoggerNames == { DisallowedHost, "django.request",
                 "django.security.SuspiciousOperation" }

\* The value of event['fingerprint'] in an event without that key.
NoKey == << Absent >>

Fingerprint == << "disallowed-host" >>

Events == [ message     : { "Invalid HTTP_HOST header" },
            fingerprint : { NoKey, << "custom" >>, Fingerprint } ]

\* The hint: None, or a dict whose 'log_record' is missing, None, or an
\* object with or without the attribute name.
NoHint == [ dict |-> FALSE, log_record |-> Absent, name |-> Absent ]

Hints == { NoHint }
         \cup [ dict : {TRUE}, log_record : {Absent, None}, name : {Absent} ]
         \cup [ dict : {TRUE}, log_record : {"object"},
                name : LoggerNames \cup {Absent} ]

\* before_send with event.setdefault('fingerprint', ...): a fingerprint
\* already on the event is kept.
before_send_setdefault(event, hint) ==
    IF ~hint.dict
    THEN [ raised |-> "AttributeError", event |-> event ]
    ELSE [ raised |-> "",
           event |-> IF /\ Truthy(GetAttr(hint.log_record, None))
                        /\ HasAttr(hint.name)
                        /\ hint.name = DisallowedHost
                        /\ event.fingerprint = NoKey
                     THEN [event EXCEPT !.fingerprint = Fingerprint]
                     ELSE event ]

\* before_send(event, hint): the exception raised, or "" and the event
\* returned.
before_send(event, hint) ==
    IF ~hint.dict
    THEN \* hint.get: None has no attribute get
         [ raised |-> "AttributeError", event |-> event ]
    ELSE LET log_record == GetAttr(hint.log_record, None)
         IN  [ raised |-> "",
               event |-> IF /\ Truthy(log_record)
                            /\ HasAttr(hint.name)
                            /\ hint.name = DisallowedHost
                         THEN [event EXCEPT !.fingerprint = Fingerprint]
                         ELSE event ]

---------------------------------------------------------------------------
\* Calls by application code.

NoRecord == NewRecord(Absent, Absent)
NoEvent == [ message |-> Absent, fingerprint |-> NoKey ]

\* A call: the fields it does not use keep these values.
CallOf(op) == [ op        |-> op,
                during    |-> Absent,    \* the calling thread's pc
                unit      |-> 0,         \* get_request_id: the thread
                value     |-> Absent,    \* get_request_id: returned
                record    |-> NoRecord,  \* the LogRecord in the pipeline
                formatter |-> Absent,    \* format: the formatter's fmt
                event     |-> NoEvent,   \* before_send: the arguments
                hint      |-> NoHint,
                out       |-> [ raised |-> "", event |-> NoEvent ] ]

NoCall == CallOf("none")

\* get_request_id() on thread u.
GetRequestId(u) ==
    /\ AppCode(u)
    /\ last' = [CallOf("get_request_id") EXCEPT
                   !.during = Pc(u),
                   !.unit = u,
                   !.value = get_request_id(thread_locals, u)]
    /\ UNCHANGED <<thread_locals, frame>>

\* A log call on thread u: the logging module creates the record.
Log(u) ==
    /\ AppCode(u)
    /\ \E level \in Levels, msg \in Messages :
          last' = [CallOf("log") EXCEPT !.during = Pc(u),
                                      !.record = NewRecord(level, msg)]
    /\ UNCHANGED <<thread_locals, frame>>

\* The record of the pipeline, not formatted yet.
InPipeline == last.op \in {"log", "filter"}

\* A handler running on thread u passes the record through RequestIDFilter.
Filter(u) ==
    /\ AppCode(u)
    /\ InPipeline
    /\ last' = [CallOf("filter") EXCEPT
                   !.during = Pc(u),
                   !.record = filter(last.record, thread_locals, u)]
    /\ UNCHANGED <<thread_locals, frame>>

\* A handler running on thread u formats the record with a
\* RequestIDServerFormatter.
Format(u) ==
    /\ AppCode(u)
    /\ InPipeline
    /\ \E fmt \in Formats :
          last' = [CallOf("format") EXCEPT
                      !.during = Pc(u),
                      !.formatter = fmt,
                      !.record = format(last.record, thread_locals, u, fmt)]
    /\ UNCHANGED <<thread_locals, frame>>

\* The error reporter passes an event through before_send, on whichever
\* thread reports.
BeforeSend ==
    /\ \E u \in Units : AppCode(u)
    /\ \E event \in Events, hint \in Hints :
          last' = [CallOf("before_send") EXCEPT
                      !.event = event,
                      !.hint = hint,
                      !.out = before_send(event, hint)]
    /\ UNCHANGED <<thread_locals, frame>>

---------------------------------------------------------------------------
Init ==
    /\ thread_locals = [u \in Units |-> Absent]
    /\ frame = [u \in Units |-> IdleFrame]
    /\ last = NoCall

Next ==
    \/ \E u \in Units :
          \/ Call(u)
          \/ InvokeHandler(u)
          \/ HandlerReturns(u)
          \/ HandlerRaises(u)
          \/ GetRequestId(u)
          \/ Log(u)
          \/ Filter(u)
          \/ Format(u)
    \/ BeforeSend

Spec == Init /\ [][Next]_vars

---------------------------------------------------------------------------
\* Helpers of the properties.

\* What a thread's slot reads as: the id stored, or the sentinel.
SlotOrSentinel(u) ==
    IF thread_locals[u] = Absent THEN NoRequest ELSE thread_locals[u]

\* The line format() must return for a record whose id resolves to id.
Line(record, id, fmt) ==
    record.levelname \o " [rid=" \o id \o "] " \o BaseFormat(fmt, record)

EndsWith(str, suffix) ==
    /\ Len(str) >= Len(suffix)
    /\ SubSeq(str, Len(str) - Len(suffix) + 1, Len(str)) = suffix

\* Format(u) enriches the record: it reached the formatter without the
\* attribute request_id.
Enriches(u) == Format(u) /\ ~HasAttr(last.record.request_id)

---------------------------------------------------------------------------
\* C1: when the handler of request R is invoked on a thread, R's id is in the
\* thread's slot and on request.request_id; and every record enriched on the
\* thread while the handler runs (by filter, or by format on a record
\* without request_id) carries and is rendered with rid = request.request_id
\* of R.
C1_Installed(u) ==
    Pc(u) \in {"invoke", "handler"} =>
        /\ Req(u).request_id \in RequestIds
        /\ thread_locals[u] = Req(u).request_id
        /\ Pc(u) = "invoke" => Req(u).handled = 0

C1_Step(u) ==
    Pc(u) = "handler" =>
        /\ Filter(u) => last'.record.request_id = Req(u).request_id
        /\ Enriches(u) =>
              /\ last'.record.request_id = Req(u).request_id
              /\ last'.record.line =
                     Line(last.record, Req(u).request_id, last'.formatter)

\* C1, as a property of every step.
C1_HandlerLogsCarryRequestId ==
    [][\A u \in Units : C1_Installed(u)' /\ C1_Step(u)]_vars

C1_Witness ==
    /\ last.op = "format"
    /\ last.during = "handler"
    /\ last.record.kept = Absent
    /\ \E u \in Units :
          /\ Pc(u) = "handler"
          /\ last.record.request_id = Req(u).request_id
          /\ \A v \in Units \ {u} :
                thread_locals[v] \notin {Absent, thread_locals[u]}

\* C2: get_request_id() on thread u returns the id the middleware stored on
\* u for u's own latest request, or None when the middleware never ran on u;
\* a store by the middleware on another thread leaves u's slot as it was.
C2_Step(u) ==
    /\ GetRequestId(u) =>
          last'.value = IF Entered(u) THEN Req(u).request_id ELSE None
    /\ \A v \in Units \ {u} :
          (Pc(v) = "idle" /\ Pc(v)' = "invoke") =>
              thread_locals'[u] = thread_locals[u]

\* C2, as a property of every step.
C2_ThreadsIsolated == [][\A u \in Units : C2_Step(u)]_vars

C2_Witness ==
    /\ last.op = "get_request_id"
    /\ \E u \in Units :
          /\ last.unit = u
          /\ last.value = Req(u).request_id
          /\ \E v \in Units \ {u} :
                /\ Pc(v) = "handler"
                /\ thread_locals[v] # last.value

\* C3: before_send never raises, whatever the event and the hint (no hint,
\* a hint without log_record, a log_record without name).
C3_NeverRaises == last.op = "before_send" => last.out.raised = ""

\* C4: for a hint that is a dict, before_send returns the event with
\* fingerprint overwritten by ["disallowed-host"] when the hint's log_record
\* is named django.security.DisallowedHost, and otherwise returns it with
\* every field as it was; it raises nothing and always returns the event.
C4_Fingerprint ==
    (last.op = "before_send" /\ last.hint.dict) =>
        /\ last.out.raised = ""
        /\ last.out.event =
              IF /\ last.hint.log_record = "object"
                 /\ last.hint.name = "django.security.DisallowedHost"
              THEN [ message |-> last.event.message,
                     fingerprint |-> << "disallowed-host" >> ]
              ELSE last.event

C4_Witness ==
    /\ last.op = "before_send"
    /\ last.hint.name = "django.security.DisallowedHost"
    /\ last.event.fingerprint = << "custom" >>
    /\ last.out.event.fingerprint = << "disallowed-host" >>

\* C5 (amended): after request R's handler has returned on a thread and
\* until the thread enters __call__ again, the slot still holds R's id:
\* get_request_id() returns it and records enriched there carry it, never
\* 'no-request'; when the next request R' stores its id, the slot holds the
\* id of R' (which is drawn afresh and may be the string R had).
C5_After(u) == Pc(u) = "idle" /\ Entered(u)

C5_Holds(u) == C5_After(u) => thread_locals[u] = Req(u).request_id

C5_Step(u) ==
    /\ C5_After(u) =>
          /\ GetRequestId(u) => last'.value = Req(u).request_id
          /\ Filter(u) => last'.record.request_id = Req(u).request_id
          /\ Enriches(u) =>
                /\ last'.record.request_id = Req(u).request_id
                /\ last'.record.line =
                       Line(last.record, Req(u).request_id, last'.formatter)
    /\ (C5_After(u) /\ Pc(u)' = "invoke") =>
          thread_locals'[u] = Req(u)'.request_id

C5_NeverAgain(u) ==
    (C5_After(u) /\ Pc(u)' = "invoke") =>
        thread_locals'[u] # thread_locals[u]

C6_Step(u) ==
    /\ ~Entered(u) =>
          /\ GetRequestId(u) => last'.value = None
          /\ Filter(u) => last'.record.request_id = "no-request"
          /\ Enriches(u) =>
                /\ last'.record.request_id = "no-request"
                /\ last'.record.line =
                       last.record.levelname \o " [rid=no-request] "
                          \o BaseFormat(last'.formatter, last.record)
    /\ Entered(u) =>
          /\ GetRequestId(u) => last'.value \in RequestIds
          /\ Filter(u) => last'.record.request_id \in RequestIds
          /\ Enriches(u) => last'.record.request_id \in RequestIds

\* C6, as a property of every step.
C6_SentinelOnlyWhenNeverSet == [][\A u \in Units : C6_Step(u)]_vars

C6_Witness ==
    /\ last.op = "format"
    /\ last.record.kept = Absent
    /\ last.record.line = "WARNING [rid=no-request] hello"
    /\ \E u \in Units : Pc(u) = "handler"

\* C7: __call__ hands the request to get_response exactly once, and what it
\* returns is the value get_response returned.
C7_PassThrough ==
    \A u \in Units :
        /\ Pc(u) = "invoke" => Req(u).handled = 0
        /\ Pc(u) = "handler" => Req(u).handled = 1
        /\ Req(u).returned # Absent =>
              /\ Pc(u) = "idle"
              /\ Req(u).handled = 1
              /\ Req(u).returned = Req(u).response

C7_Witness ==
    \E u \in Units :
        /\ Pc(u) = "idle"
        /\ Req(u).handled = 1
        /\ Req(u).returned = "404 Not Found"

\* C8 (amended): format(record) returns levelname + ' [rid=' + id + '] ' +
\* the base formatter's output, id being the request_id the record already
\* carries (kept as it is, whatever the thread's slot holds) and otherwise
\* the thread's request id, or 'no-request'; so the record INFO / 'hello' /
\* 'abcd1234' formats to 'INFO [rid=abcd1234] ' followed by the base
\* formatter's output, which is 'INFO [rid=abcd1234] hello' when the base
\* format is the bare message.
C8_Step(u) ==
    Format(u) =>
        LET id == IF last.record.request_id # Absent
                  THEN last.record.request_id
                  ELSE SlotOrSentinel(u)
        IN  /\ last'.record.request_id = id
            /\ last'.record.line = Line(last.record, id, last'.formatter)

C8_Example ==
    ( /\ last.op = "format"
      /\ last.record.levelname = "INFO"
      /\ last.record.msg = "hello"
      /\ last.record.request_id = "abcd1234" ) =>
        /\ last.formatter = "{message}" =>
              last.record.line = "INFO [rid=abcd1234] hello"
        /\ last.formatter # "{message}" =>
              last.record.line =
                  "INFO [rid=abcd1234] [" \o ServerTime \o "] hello"

\* C8 (amended), as a property of every step.
C8_FormatLine == [][C8_Example' /\ \A u \in Units : C8_Step(u)]_vars

C8_Witness ==
    /\ last.op = "format"
    /\ last.record.kept = "True"
    /\ last.record.line = "INFO [rid=abcd1234] hello"
    /\ \E u \in Units :
          /\ Pc(u) = "handler"
          /\ \A v \in Units : thread_locals[v] \notin {Absent, "abcd1234"}

\* C8 as first stated: the record INFO / 'hello' / 'abcd1234' formats to a
\* string ending in 'INFO [rid=abcd1234] hello'.
C8_Original ==
    ( /\ last.op = "format"
      /\ last.record.levelname = "INFO"
      /\ last.record.msg = "hello"
      /\ last.record.request_id = "abcd1234" ) =>
        EndsWith(last.record.line, "INFO [rid=abcd1234] hello")

\* C9: filter(record) returns True for every record in every state of the
\* store, and leaves on the record the request_id read from the calling
\* thread's slot ('no-request' when the slot is empty), in place of any
\* request_id the record carried; nothing else of the record changes.
C9_Step(u) ==
    Filter(u) =>
        /\ last'.record.kept = "True"
        /\ last'.record.request_id = SlotOrSentinel(u)
        /\ last'.record.levelname = last.record.levelname
        /\ last'.record.msg = last.record.msg
        /\ last'.record.line = last.record.line

\* C9, as a property of every step.
C9_FilterKeepsAndEnriches == [][\A u \in Units : C9_Step(u)]_vars

C9_Witness ==
    /\ last.op = "filter"
    /\ last.during = "idle"
    /\ last.record.kept = "True"
    /\ last.record.request_id = "no-request"
    /\ \E u \in Units : Pc(u) = "handler"

\* C10: a thread's slot is written only by its own __call__, once per
\* request, before the handler receives the request; get_request_id, filter,
\* format and before_send leave every slot as it was; two reads in a row on
\* a thread with no __call__ entered on it in between return the same value;
\* a slot holds nothing or one id.
C10_AppCall ==
    /\ last'.op \in {"get_request_id", "filter", "format", "before_send"}
    /\ last' # last

C10_Step(u) ==
    /\ thread_locals'[u] # thread_locals[u] =>
          /\ Pc(u) = "idle" /\ Pc(u)' = "invoke"
          /\ Req(u)'.handled = 0
    /\ Pc(u)' = Pc(u) => thread_locals'[u] = thread_locals[u]
    /\ (Pc(u) = "idle" /\ Pc(u)' = "invoke") =>
          thread_locals'[u] = Req(u)'.request_id
    /\ C10_AppCall => thread_locals' = thread_locals
    /\ (GetRequestId(u) /\ last.op = "get_request_id" /\ last.unit = u) =>
          last'.value = last.value
    /\ thread_locals'[u] \in RequestIds \cup {Absent}

\* C10, as a property of every step.
C10_SingleWriter == [][\A u \in Units : C10_Step(u)]_vars

C10_Witness ==
    /\ last.op = "get_request_id"
    /\ last.during = "handler"
    /\ \E u \in Units :
          /\ last.unit = u
          /\ Pc(u) = "idle"
          /\ Req(u).returned \in Responses
          /\ last.value = thread_locals[u]

===========================================================================
